---- MODULE Spec2Model ----
(***************************************************************************)
(* Model of runtime/mercury_memory_handlers.c: the SIGSEGV/SIGBUS handlers *)
(* of the Mercury runtime, the router try_munprotect that finds the memory *)
(* zone whose redzone holds a fault address, and the two zone handlers     *)
(* default_handler (unprotect up to the rounded fault address) and         *)
(* null_handler (refuse).                                                  *)
(*                                                                         *)
(* Addresses are natural numbers (byte addresses).  The registry of zones  *)
(* is a sequence in the order get_used_memory_zones()/zone->next walks it. *)
(***************************************************************************)
EXTENDS Integers, Sequences, FiniteSets, TLC

VARIABLES
    zones,        \* the registry: sequence of MemoryZone records
    build,        \* the build's configuration macros
    proc,         \* "start" (before setup_signal), "running", "exited"
    exit_status,  \* status passed to exit()/_exit(); NoExit while alive
    diag,         \* the diagnostic the terminating path printed
    last,         \* the last signal delivery and what the handler did
    prev,         \* the registry as it was before the last delivery
    thr,          \* per-thread handler state (multi-threaded specification)
    out,          \* the output and exit calls the last handler run made
    exiter,       \* the function whose exit()/_exit() call ended the process
    rw,           \* the addresses mprotect has made read-write
    zones0,       \* the registry as it was at start-up
    dump          \* the label history and what print_dump_stack wrote of it

vars ==
    <<zones, build, proc, exit_status, diag, last, prev, thr,
      out, exiter, rw, zones0, dump>>

(***************************************************************************)
(* Bounds of the model.                                                    *)
(***************************************************************************)
MaxZones == 2       \* longest registry
Win == 8            \* address window each generated zone lives in
MaxHist == 6        \* longest label history print_dump_stack is given

(***************************************************************************)
(* Program constants.  `unit' and sizeof(Word) are set outside this file;  *)
(* the model keeps what the handlers rely on (unit a power of two, a word  *)
(* smaller than a unit) at a scale the addresses of the model can cover.   *)
(* round_up is a macro of a header; it is modelled from its description in *)
(* this file.  Addresses stay far below the width of a pointer, so no sum  *)
(* wraps.                                                                  *)
(***************************************************************************)
unit == 4           \* the global `unit' (protection granularity)
WordSize == 2       \* sizeof(Word)

NoExit == 0 - 1
MaxAddr == MaxZones * Win + unit
Addrs == 0 .. MaxAddr

Signals == {"SIGSEGV", "SIGBUS", "SIGOTHER"}
Strategies == {"sigcontext_struct", "siginfo_t", "simple"}
Handlers == {"default_handler", "null_handler"}
Threads == {"t1", "t2"}

\* Mutant of round_up: rounds down.
round_up_Down(amount, align) == (amount \div align) * align

\* round_up(amount, align): `amount' rounded up to the nearest alignment
\* boundary.
round_up(amount, align) == ((amount + align - 1) \div align) * align

\* HAVE_MPROTECT && HAVE_SIGINFO: the real router and handlers are compiled.
HaveSiginfo(b) == b.strategy # "simple"
FullBuild(b) == b.have_mprotect /\ HaveSiginfo(b)

(***************************************************************************)
(* Diagnostics.  A diagnostic is its kind and the zone name and id it      *)
(* prints, if any.                                                         *)
(***************************************************************************)
NoName == ""
NoId == 0 - 1
NoDiag == [kind |-> "none", name |-> NoName, id |-> NoId]
Generic(kind) == [kind |-> kind, name |-> NoName, id |-> NoId]
Naming(kind, zone) == [kind |-> kind, name |-> zone.name, id |-> zone.id]

\* What a call leaves behind: its return value (meaningful only when it
\* returned), the registry, whether it returned to its caller, and the
\* exit status and diagnostic when it terminated the process instead;
\* the output and exit calls it made (out), the function whose exit call
\* ended the process (by), the addresses it had mprotect make read-write
\* (unprot), and whether it called print_dump_stack (dumps).  memdebug is off, as it is unless the program is
\* run with the debugging option that sets it.
NoFunction == "none"
Returned(ret, zs) ==
    [ret |-> ret, zones |-> zs, returned |-> TRUE,
     exit |-> NoExit, diag |-> NoDiag, called |-> << >>,
     out |-> {}, by |-> NoFunction, unprot |-> {}, dumps |-> FALSE]
Terminated(status, d, zs) ==
    [ret |-> FALSE, zones |-> zs, returned |-> FALSE,
     exit |-> status, diag |-> d, called |-> << >>,
     out |-> {}, by |-> NoFunction, unprot |-> {}, dumps |-> FALSE]
\* Result r, reached through the library calls `calls', the process ended
\* by the exit call of function fn.
Through(r, calls, fn) == [r EXCEPT !.out = calls, !.by = fn]

\* Mutant of fatal_abort: _exit(0).
fatal_abort_ExitZero(main_msg, want_dump, zs) ==
    [Through(Terminated(0, main_msg, zs), {"write", "_exit"}, "fatal_abort")
        EXCEPT !.dumps = want_dump]

\* fatal_abort(context, main_msg, dump): write the messages, the trace
\* report and, if (dump), the dump with write(STDERR, ...), then _exit(1).
fatal_abort(main_msg, want_dump, zs) ==
    [Through(Terminated(1, main_msg, zs), {"write", "_exit"}, "fatal_abort")
        EXCEPT !.dumps = want_dump]

\* Mutant of StoreRedzone: the store goes through the head of the registry
\* instead of the zone the handler was given.
StoreRedzone_Head(zs, i, new_zone) == [zs EXCEPT ![1].redzone = new_zone]

\* Mutant of StoreRedzone: top is moved up with the boundary.
StoreRedzone_AndTop(zs, i, new_zone) ==
    [zs EXCEPT ![i].redzone = new_zone,
               ![i].top = IF new_zone > @ THEN new_zone ELSE @]

\* Mutant of StoreRedzone: the boundary is stored only when it is above the
\* one in place.
StoreRedzone_Max(zs, i, new_zone) ==
    [zs EXCEPT ![i].redzone = IF new_zone > @ THEN new_zone ELSE @]

\* zone->redzone = new_zone
StoreRedzone(zs, i, new_zone) == [zs EXCEPT ![i].redzone = new_zone]

\* Mutant of CannotUnprotect: the exit(1) after perror is missing and the
\* handler falls through to return FALSE.
CannotUnprotect_Return(zs, i) == Returned(FALSE, zs)

\* The protection-change failure branch: sprintf, perror, exit(1).
CannotUnprotect(zs, i) ==
    Through(Terminated(1, Naming("cannot_unprotect", zs[i]), zs),
            {"perror", "exit"}, "default_handler")

\* The overflow branch: sprintf the zone's name and id, fatal_abort.
Overflowed(zs, i) == fatal_abort(Naming("overflowed", zs[i]), TRUE, zs)

\* Mutants of FitsHardmax: a page of slack above hardmax; a strict test.
FitsHardmax_PageSlack(new_zone, zone) == new_zone <= zone.hardmax + unit
FitsHardmax_Strict(new_zone, zone) == new_zone < zone.hardmax

\* new_zone <= zone->hardmax
FitsHardmax(new_zone, zone) == new_zone <= zone.hardmax

\* Mutant of ZoneSize: the size is counted from min.
ZoneSize_FromMin(new_zone, zone) == new_zone - zone.min

\* zone_size = (char *)new_zone - (char *)zone->redzone
ZoneSize(new_zone, zone) == new_zone - zone.redzone

\* The addresses mprotect(start, size, PROT_READ|PROT_WRITE) makes
\* read-write when it succeeds: the size bytes from start on.
Unprotect(start, size) == start .. (start + size - 1)

\* The successful branch: the range is unprotected, the new boundary
\* stored, TRUE returned.
Unprotected(zs, i, new_zone) ==
    [Returned(TRUE, StoreRedzone(zs, i, new_zone))
        EXCEPT !.unprot = Unprotect(zs[i].redzone, ZoneSize(new_zone, zs[i]))]

\* Mutant of default_handler: the fault address is rounded without adding
\* sizeof(Word).
default_handler_NoWord(fault_addr, zs, i, mprotect_ok) ==
    LET new_zone == round_up(fault_addr, unit) IN
    IF FitsHardmax(new_zone, zs[i])
    THEN IF ~mprotect_ok
         THEN CannotUnprotect(zs, i)
         ELSE Unprotected(zs, i, new_zone)
    ELSE Overflowed(zs, i)

\* default_handler(fault_addr, zone, context) on zone i of registry zs;
\* mprotect_ok is the outcome of the mprotect call.
default_handler(fault_addr, zs, i, mprotect_ok) ==
    LET new_zone == round_up(fault_addr + WordSize, unit) IN
    IF FitsHardmax(new_zone, zs[i])
    THEN IF ~mprotect_ok
         THEN CannotUnprotect(zs, i)
         ELSE Unprotected(zs, i, new_zone)
    ELSE Overflowed(zs, i)

\* Mutant of null_handler: return TRUE.
null_handler_True(fault_addr, zs, i) == Returned(TRUE, zs)

\* null_handler: return FALSE.
null_handler(fault_addr, zs, i) == Returned(FALSE, zs)

\* zone->handler(fault_addr, zone, context)
CallHandler(fault_addr, zs, i, mprotect_ok) ==
    IF zs[i].handler = "default_handler"
    THEN default_handler(fault_addr, zs, i, mprotect_ok)
    ELSE null_handler(fault_addr, zs, i)

\* Mutants of InRedzone: the range starts at min; the range ends at hardmax.
InRedzone_FromMin(zone, fault_addr) ==
    zone.min <= fault_addr /\ fault_addr <= zone.top
InRedzone_ToHardmax(zone, fault_addr) ==
    zone.redzone <= fault_addr /\ fault_addr <= zone.hardmax

\* zone->redzone <= fault_addr && fault_addr <= zone->top
InRedzone(zone, fault_addr) ==
    zone.redzone <= fault_addr /\ fault_addr <= zone.top

\* Mutant of FindZone: the loop does not stop at the first match, the last
\* matching zone wins.
RECURSIVE FindZone_Last(_, _, _)
FindZone_Last(zs, fault_addr, i) ==
    IF i > Len(zs) THEN 0
    ELSE LET rest == FindZone_Last(zs, fault_addr, i + 1) IN
         IF rest # 0 THEN rest
         ELSE IF InRedzone(zs[i], fault_addr) THEN i ELSE 0

\* The while loop of try_munprotect from zone i on: the index of the first
\* zone whose redzone holds the address, 0 when zone reaches NULL.
RECURSIVE FindZone(_, _, _)
FindZone(zs, fault_addr, i) ==
    IF i > Len(zs) THEN 0
    ELSE IF InRedzone(zs[i], fault_addr) THEN i
    ELSE FindZone(zs, fault_addr, i + 1)

\* try_munprotect(addr, context) with HAVE_MPROTECT && HAVE_SIGINFO.
try_munprotect_full(zs, addr, mprotect_ok) ==
    LET i == FindZone(zs, addr, 1) IN
    IF i = 0 THEN Returned(FALSE, zs)
    ELSE [CallHandler(addr, zs, i, mprotect_ok) EXCEPT !.called = <<i>>]

\* Mutant of try_munprotect: every build gets the real router.
try_munprotect_NoStub(b, zs, addr, mprotect_ok) ==
    try_munprotect_full(zs, addr, mprotect_ok)

\* try_munprotect of the build: the stub returns FALSE.
try_munprotect(b, zs, addr, mprotect_ok) ==
    IF FullBuild(b) THEN try_munprotect_full(zs, addr, mprotect_ok)
    ELSE Returned(FALSE, zs)

(***************************************************************************)
(* The registries the model starts from.  Zone k of the address space      *)
(* lives in the window [(k-1)*Win, k*Win]; the registry lists the zones in *)
(* ascending or descending address order.  min <= redzone <= top <=        *)
(* hardmax holds of every generated zone.                                  *)
(***************************************************************************)
AllBuilds ==
    {b \in [strategy : Strategies, have_mprotect : BOOLEAN,
            lowlevel_debug : BOOLEAN] :
        b.strategy = "simple" => ~b.have_mprotect}
\* The builds without and with MR_LOWLEVEL_DEBUG.
Builds == {b \in AllBuilds : ~b.lowlevel_debug}
DebugBuilds == {b \in AllBuilds : b.lowlevel_debug}

ZoneName(k) == IF k % 2 = 1 THEN "detstack" ELSE "nondstack"
ZoneId(k) == (k - 1) \div 2

RedzoneOffsets == {0, WordSize}
TopOffsets == {unit + WordSize, Win}
Choices == [red : RedzoneOffsets, top : TopOffsets, handler : Handlers]

\* The zone registered k-th, living in window w, shaped by choice c.
MkZone(k, w, c) ==
    LET base == (w - 1) * Win IN
    [name |-> ZoneName(k), id |-> ZoneId(k),
     min |-> base, redzone |-> base + c.red, top |-> base + c.top,
     hardmax |-> base + Win, handler |-> c.handler]

Slot(order, n, k) == IF order = "asc" THEN k ELSE n + 1 - k
MkRegistry(n, order, c) == [k \in 1 .. n |-> MkZone(k, Slot(order, n, k), c[k])]

Ordered(zone) ==
    /\ zone.min <= zone.redzone
    /\ zone.redzone <= zone.top
    /\ zone.top <= zone.hardmax

\* Two zones' [redzone, top] ranges have an address in common.
Overlap(z1, z2) == z1.redzone <= z2.top /\ z2.redzone <= z1.top
\* ... and more than one boundary address.
OverlapInside(z1, z2) == z1.redzone < z2.top /\ z2.redzone < z1.top

NonOverlapping(zs) ==
    \A i, j \in 1 .. Len(zs) : i # j => ~Overlap(zs[i], zs[j])
AtMostTouching(zs) ==
    \A i, j \in 1 .. Len(zs) : i # j => ~OverlapInside(zs[i], zs[j])

NoDelivery ==
    [entry |-> "none", sig |-> "none", addr |-> 0, mprotect_ok |-> FALSE,
     routed |-> FALSE, returned |-> FALSE, handled |-> FALSE,
     resumed |-> FALSE, called |-> << >>]

IdleThread ==
    [pc |-> "idle", sig |-> "none", addr |-> 0, mprotect_ok |-> FALSE, cur |-> 0, zone |-> 0,
     new_zone |-> 0, zone_size |-> 0, handled |-> FALSE]

\* No label history, nothing printed of it.
NoDump == [hist |-> << >>, lines |-> << >>, printed |-> FALSE]

InitWithHistory(zs, b, h) ==
    /\ zones = zs
    /\ build = b
    /\ proc = "start"
    /\ exit_status = NoExit
    /\ diag = NoDiag
    /\ last = NoDelivery
    /\ prev = zs
    /\ thr = [t \in Threads |-> IdleThread]
    /\ out = {}
    /\ exiter = NoFunction
    /\ rw = {}
    /\ zones0 = zs
    /\ dump = [NoDump EXCEPT !.hist = h]

InitWith(zs, b) == InitWithHistory(zs, b, << >>)

\* The registry contract: no two zones' [redzone, top] ranges overlap.
Init ==
    \E n \in 0 .. MaxZones, order \in {"asc", "desc"}, b \in Builds :
        \E c \in [1 .. n -> Choices] :
            /\ NonOverlapping(MkRegistry(n, order, c))
            /\ InitWith(MkRegistry(n, order, c), b)

(***************************************************************************)
(* print_dump_stack.  With MR_LOWLEVEL_DEBUG it writes the label history   *)
(* (the first dumpindex entries of dumpstack_zone) between a header and a  *)
(* footer, runs of equal labels folded into one line; a line is the        *)
(* sequence of the fields sprintf puts in it.  Without MR_LOWLEVEL_DEBUG   *)
(* it writes one fixed hint and no history.                                *)
(***************************************************************************)
Labels == {"p", "q"}
Histories == UNION {[1 .. n -> Labels] : n \in 0 .. MaxHist}

DumpHeader == <<"A dump of the det stack follows">>
DumpFooter == <<"end of stack dump">>

\* ((char **)(dumpstack_zone->min))[i], i counted from 0
Entry(h, i) == h[i + 1]

\* Mutant of FormatEntry: the count is never printed.
FormatEntry_NoCount(label, count) == <<label>>

\* sprintf(buf, "%s * %d\n", label, count) if count > 1, else
\* sprintf(buf, "%s\n", label)
FormatEntry(label, count) ==
    IF count > 1 THEN <<label, "*", count>> ELSE <<label>>

\* The inner while loop: from i on, count the entries equal to the one at
\* start; gives the i and count it ends with.
RECURSIVE RunScan(_, _, _, _)
RunScan(h, start, i, count) ==
    IF i < Len(h) /\ Entry(h, i) = Entry(h, start)
    THEN RunScan(h, start, i + 1, count + 1)
    ELSE [i |-> i, count |-> count]

\* The outer while loop from i on: the lines it writes.
RECURSIVE DumpEntries(_, _)
DumpEntries(h, i) ==
    IF i < Len(h)
    THEN LET run == RunScan(h, i, i + 1, 1) IN
         <<FormatEntry(Entry(h, i), run.count)>> \o DumpEntries(h, run.i)
    ELSE << >>

\* print_dump_stack() of the MR_LOWLEVEL_DEBUG build: what it writes to
\* STDERR.
print_dump_stack(h) == <<DumpHeader>> \o DumpEntries(h, 0) \o <<DumpFooter>>

\* The dump state d after print_dump_stack() in build b.
DumpWritten(b, d) ==
    IF b.lowlevel_debug
    THEN [d EXCEPT !.lines = print_dump_stack(d.hist), !.printed = TRUE]
    ELSE d

(***************************************************************************)
(* Process termination and the signal handlers.                            *)
(***************************************************************************)
\* exit(status) / _exit(status), called in function fn after printing
\* diagnostic d through the library calls `calls', and after
\* print_dump_stack() if the path calls it (dumps).
Exit(status, d, calls, fn, dumps) ==
    /\ proc' = "exited"
    /\ exit_status' = status
    /\ diag' = d
    /\ out' = calls
    /\ exiter' = fn
    /\ dump' = IF dumps THEN DumpWritten(build, dump) ELSE dump

\* The calls of the handlers' own exits: perror and exit(1) when a handler
\* cannot be installed; fprintf and exit(1) for a strange delivery; and for
\* every other unhandled delivery fflush(stdout), fprintf(stderr, ...),
\* MR_trace_report(stderr), print_dump_stack's write, exit(1).
SetupCalls == {"perror", "exit"}
StrangeCalls == {"fprintf", "exit"}
BannerCalls == {"fflush", "fprintf", "write", "exit"}

\* setup_signal(): install the handlers; a failure prints and exits.
SetupExitStatus == 1
SetupFailures(b) ==
    IF b.strategy = "siginfo_t"
    THEN {"sigemptyset", "SIGBUS", "SIGSEGV"}
    ELSE {"SIGBUS", "SIGSEGV"}

setup_signal ==
    /\ proc = "start"
    /\ \E fail \in SetupFailures(build) \cup {"none"} :
          IF fail = "none"
          THEN /\ proc' = "running"
               /\ UNCHANGED <<exit_status, diag, out, exiter, dump>>
          ELSE Exit(SetupExitStatus, Generic("cannot_set_handler"),
                    SetupCalls, "setup_signal", FALSE)
    /\ UNCHANGED <<zones, build, last, prev, thr, rw, zones0>>

\* A handler entered for a delivery it does not route (bus error, strange
\* or unknown signal, minimal strategy): print, exit(1).  The write among
\* a handler's calls is that of print_dump_stack().
HandlerExitStatus == 1
Fatal(entry, sig, addr, d, calls) ==
    /\ last' = [NoDelivery EXCEPT !.entry = entry, !.sig = sig, !.addr = addr]
    /\ prev' = zones
    /\ Exit(HandlerExitStatus, d, calls, entry, "write" \in calls)
    /\ UNCHANGED <<zones, build, thr, rw, zones0>>

\* The SIGSEGV path shared by complex_segvhandler and complex_sighandler:
\* if (try_munprotect(address, context)) return; ... exit(1).
SegvPath(entry, sig, addr, mprotect_ok) ==
    LET r == try_munprotect(build, zones, addr, mprotect_ok)
        resumes == r.returned /\ r.ret
    IN  /\ zones' = r.zones
        /\ prev' = zones
        /\ last' = [entry |-> entry, sig |-> sig, addr |-> addr,
                    mprotect_ok |-> mprotect_ok, routed |-> TRUE,
                    returned |-> r.returned, handled |-> resumes,
                    resumed |-> resumes,
                    called |-> r.called]
        /\ rw' = rw \cup r.unprot
        /\ IF ~r.returned THEN Exit(r.exit, r.diag, r.out, r.by, r.dumps)
           ELSE IF r.ret
           THEN /\ out' = r.out
                /\ UNCHANGED <<proc, exit_status, diag, exiter, dump>>
           ELSE Exit(HandlerExitStatus, Generic("segmentation_violation"),
                     BannerCalls, entry, TRUE)
        /\ UNCHANGED <<build, thr, zones0>>

\* The outcomes the mprotect call of this delivery can have: success or
\* failure when default_handler reaches it, none (FALSE) when it does not.
MprotectOutcomes(b, zs, addr) ==
    LET i == FindZone(zs, addr, 1) IN
    IF /\ FullBuild(b)
       /\ i # 0
       /\ zs[i].handler = "default_handler"
       /\ FitsHardmax(round_up(addr + WordSize, unit), zs[i])
    THEN BOOLEAN
    ELSE {FALSE}

\* The siginfo_t a handler is given: NULL, or its si_signo (si_addr is
\* read only once the delivery has passed the handler's first test).
NullInfo == [present |-> FALSE, si_signo |-> "none"]
Infos == {NullInfo} \cup [present : {TRUE}, si_signo : Signals]

\* sig != SIGxxx || !info || info->si_signo != SIGxxx
Strange(sig, info, expected) ==
    sig # expected \/ ~info.present \/ info.si_signo # expected

complex_segvhandler ==
    /\ proc = "running"
    /\ build.strategy = "siginfo_t"
    /\ \E sig \in Signals, info \in Infos :
          IF Strange(sig, info, "SIGSEGV")
          THEN Fatal("complex_segvhandler", sig, 0,
                     Generic("strange_segmentation_violation"), StrangeCalls)
          ELSE \E si_addr \in Addrs :
                  \E mprotect_ok \in MprotectOutcomes(build, zones, si_addr) :
                     SegvPath("complex_segvhandler", sig, si_addr, mprotect_ok)

complex_bushandler ==
    /\ proc = "running"
    /\ build.strategy = "siginfo_t"
    /\ \E sig \in Signals, info \in Infos :
          IF Strange(sig, info, "SIGBUS")
          THEN Fatal("complex_bushandler", sig, 0, Generic("strange_bus_error"),
                     StrangeCalls \cup {"fflush"})
          ELSE \E si_addr \in Addrs :
                  Fatal("complex_bushandler", sig, si_addr, Generic("bus_error"),
                        BannerCalls)

\* Mutant of complex_sighandler: case SIGBUS shares the code of case
\* SIGSEGV.
complex_sighandler_BusRouted ==
    /\ proc = "running"
    /\ build.strategy = "sigcontext_struct"
    /\ \E sig \in Signals, address \in Addrs :
          CASE sig \in {"SIGSEGV", "SIGBUS"} ->
                 \E mprotect_ok \in MprotectOutcomes(build, zones, address) :
                    SegvPath("complex_sighandler", sig, address, mprotect_ok)
            [] OTHER ->
                 Fatal("complex_sighandler", sig, address,
                       Generic("unknown_signal"), BannerCalls)

complex_sighandler ==
    /\ proc = "running"
    /\ build.strategy = "sigcontext_struct"
    /\ \E sig \in Signals, address \in Addrs :
          CASE sig = "SIGSEGV" ->
                 \E mprotect_ok \in MprotectOutcomes(build, zones, address) :
                    SegvPath("complex_sighandler", sig, address, mprotect_ok)
            [] sig = "SIGBUS" ->
                 Fatal("complex_sighandler", sig, address, Generic("bus_error"),
                       BannerCalls)
            [] OTHER ->
                 Fatal("complex_sighandler", sig, address,
                       Generic("unknown_signal"), BannerCalls)

simple_sighandler ==
    /\ proc = "running"
    /\ build.strategy = "simple"
    /\ \E sig \in Signals :
          CASE sig = "SIGBUS" ->
                 Fatal("simple_sighandler", sig, 0, Generic("bus_error"),
                       BannerCalls)
            [] sig = "SIGSEGV" ->
                 Fatal("simple_sighandler", sig, 0,
                       Generic("segmentation_violation"), BannerCalls)
            [] OTHER ->
                 Fatal("simple_sighandler", sig, 0, Generic("unknown_signal"),
                       BannerCalls)

Next ==
    \/ setup_signal
    \/ complex_segvhandler
    \/ complex_bushandler
    \/ complex_sighandler
    \/ simple_sighandler

Spec == Init /\ [][Next]_vars

\* A registry in which two zones share one boundary address
\* (zoneA.top = zoneB.redzone), and no two zones share more.
InitShared ==
    \E n \in 0 .. MaxZones, order \in {"asc", "desc"}, b \in Builds :
        \E c \in [1 .. n -> Choices] :
            /\ AtMostTouching(MkRegistry(n, order, c))
            /\ ~NonOverlapping(MkRegistry(n, order, c))
            /\ InitWith(MkRegistry(n, order, c), b)

SpecShared == InitShared /\ [][Next]_vars

(***************************************************************************)
(* Two threads, each taking one SIGSEGV.  The handler runs on the thread   *)
(* that faulted, with no lock; its reads and writes of the registry are    *)
(* the steps below, interleaved with the other thread's.  exit() ends the  *)
(* whole process, whatever the other thread was doing.                     *)
(***************************************************************************)
Run(t, fields) == thr' = [thr EXCEPT ![t] = fields]

\* Mutant of ThreadExit: the exit(1) that ends the handler is missing and
\* the handler returns to the faulting instruction.
ThreadExit_Return(t, status, d, calls, fn, dumps) ==
    /\ thr' = [thr EXCEPT ![t].pc = "resumed"]
    /\ UNCHANGED <<zones, build, proc, exit_status, diag, last, prev,
                   out, exiter, rw, zones0, dump>>

\* The handler on thread t ends the process: exit(status) in function fn.
ThreadExit(t, status, d, calls, fn, dumps) ==
    /\ Run(t, [thr[t] EXCEPT !.pc = "exited"])
    /\ Exit(status, d, calls, fn, dumps)
    /\ UNCHANGED <<zones, build, last, prev, rw, zones0>>

\* What a step that neither stores nor exits leaves alone.
MT_Rest ==
    <<zones, build, proc, exit_status, diag, last, prev,
      out, exiter, rw, zones0, dump>>

\* The addresses that fault on a guard band: those in the [redzone, top]
\* of some zone.
GuardBand(zs) == {a \in Addrs : FindZone(zs, a, 1) # 0}

\* SIGSEGV delivered to thread t: complex_segvhandler / complex_sighandler
\* calls try_munprotect, which starts at get_used_memory_zones().
MT_Deliver(t) ==
    /\ proc = "running"
    /\ thr[t].pc = "idle"
    /\ \E a \in GuardBand(zones) :
          Run(t, [thr[t] EXCEPT !.pc = "route", !.sig = "SIGSEGV",
                                !.addr = a, !.cur = 1])
    /\ UNCHANGED MT_Rest

\* SIGBUS delivered to thread t: complex_bushandler prints and exits.
MT_Bus(t) ==
    /\ proc = "running"
    /\ thr[t].pc = "idle"
    /\ Run(t, [thr[t] EXCEPT !.pc = "exited", !.sig = "SIGBUS"])
    /\ Exit(HandlerExitStatus, Generic("bus_error"), BannerCalls,
            "complex_bushandler", TRUE)
    /\ UNCHANGED <<zones, build, last, prev, rw, zones0>>

\* One iteration of the while loop of try_munprotect: the range test on
\* the zone the traversal is at.  A match enters the zone's handler; at the
\* end of the list try_munprotect returns FALSE and the signal handler
\* prints and exits.
MT_Route(t) ==
    /\ proc = "running"
    /\ thr[t].pc = "route"
    /\ LET i == thr[t].cur
       IN  IF i > Len(zones)
           THEN ThreadExit(t, HandlerExitStatus,
                           Generic("segmentation_violation"),
                           BannerCalls, "complex_segvhandler", TRUE)
           ELSE IF ~InRedzone(zones[i], thr[t].addr)
           THEN /\ Run(t, [thr[t] EXCEPT !.cur = i + 1])
                /\ UNCHANGED MT_Rest
           ELSE /\ Run(t, [thr[t] EXCEPT !.pc = "handler", !.zone = i])
                /\ UNCHANGED MT_Rest

\* zone->handler(fault_addr, zone, context), entered after the range test:
\* null_handler returns FALSE and the signal handler prints and exits;
\* default_handler computes new_zone and tests it against hardmax, and
\* goes on to unprotect or ends in fatal_abort.
MT_Handler(t) ==
    /\ proc = "running"
    /\ thr[t].pc = "handler"
    /\ LET i == thr[t].zone
           new_zone == round_up(thr[t].addr + WordSize, unit)
       IN  IF zones[i].handler = "null_handler"
           THEN ThreadExit(t, HandlerExitStatus,
                           Generic("segmentation_violation"),
                           BannerCalls, "complex_segvhandler", TRUE)
           ELSE IF FitsHardmax(new_zone, zones[i])
           THEN /\ Run(t, [thr[t] EXCEPT !.pc = "size", !.new_zone = new_zone])
                /\ UNCHANGED MT_Rest
           ELSE LET r == Overflowed(zones, i) IN
                ThreadExit(t, r.exit, r.diag, r.out, r.by, r.dumps)

\* zone_size = (char *)new_zone - (char *)zone->redzone
MT_Size(t) ==
    /\ proc = "running"
    /\ thr[t].pc = "size"
    /\ Run(t, [thr[t] EXCEPT !.pc = "mprotect",
                  !.zone_size = ZoneSize(thr[t].new_zone, zones[thr[t].zone])])
    /\ UNCHANGED MT_Rest

\* The outcomes of mprotect(start, size, ...): zone_size is a size_t, so a
\* negative difference is a length that wraps the address space, which
\* mprotect rejects; any other call may succeed or fail.
MT_MprotectOutcomes(size) == IF size < 0 THEN {FALSE} ELSE BOOLEAN

\* mprotect((char *)zone->redzone, zone_size, PROT_READ|PROT_WRITE)
MT_Mprotect(t) ==
    /\ proc = "running"
    /\ thr[t].pc = "mprotect"
    /\ \E mprotect_ok \in MT_MprotectOutcomes(thr[t].zone_size) :
          IF mprotect_ok
          THEN /\ Run(t, [thr[t] EXCEPT !.pc = "store", !.mprotect_ok = TRUE])
               /\ rw' = rw \cup Unprotect(zones[thr[t].zone].redzone,
                                          thr[t].zone_size)
               /\ UNCHANGED <<zones, build, proc, exit_status, diag, last,
                              prev, out, exiter, zones0, dump>>
          ELSE LET r == CannotUnprotect(zones, thr[t].zone) IN
               ThreadExit(t, r.exit, r.diag, r.out, r.by, r.dumps)

\* zone->redzone = new_zone; return TRUE; the handler returns.
MT_Store(t) ==
    /\ proc = "running"
    /\ thr[t].pc = "store"
    /\ zones' = StoreRedzone(zones, thr[t].zone, thr[t].new_zone)
    /\ Run(t, [thr[t] EXCEPT !.pc = "resumed", !.handled = TRUE])
    /\ UNCHANGED <<build, proc, exit_status, diag, last, prev,
                   out, exiter, rw, zones0, dump>>

NextMT ==
    \/ setup_signal
    \/ \E t \in Threads : MT_Deliver(t)
    \/ \E t \in Threads : MT_Bus(t)
    \/ \E t \in Threads : MT_Route(t)
    \/ \E t \in Threads : MT_Handler(t)
    \/ \E t \in Threads : MT_Size(t)
    \/ \E t \in Threads : MT_Mprotect(t)
    \/ \E t \in Threads : MT_Store(t)

\* The multi-threaded runs: a build with the real router and the
\* siginfo_t handlers, zones whose redzone starts one word above min.
MTBuild ==
    [strategy |-> "siginfo_t", have_mprotect |-> TRUE,
     lowlevel_debug |-> FALSE]
MTChoices == {c \in Choices : c.red = WordSize}

InitMT ==
    \E n \in 0 .. MaxZones, order \in {"asc", "desc"} :
        \E c \in [1 .. n -> MTChoices] :
            /\ NonOverlapping(MkRegistry(n, order, c))
            /\ InitWith(MkRegistry(n, order, c), MTBuild)

SpecMT == InitMT /\ [][NextMT]_vars

(***************************************************************************)
(* The builds with MR_LOWLEVEL_DEBUG, started with a label history in the  *)
(* dump stack and a registry of at most one zone; the handlers are those   *)
(* of Next.                                                                *)
(***************************************************************************)
DumpChoices == {c \in Choices : c.red = WordSize /\ c.top = Win}
DumpRegistries ==
    {<< >>} \cup {MkRegistry(1, "asc", c) : c \in [1 .. 1 -> DumpChoices]}

InitDump ==
    \E h \in Histories, b \in DebugBuilds, zs \in DumpRegistries :
        InitWithHistory(zs, b, h)

SpecDump == InitDump /\ [][Next]_vars

(***************************************************************************)
(* Properties.                                                             *)
(***************************************************************************)
ZoneIdx == 1 .. Len(zones)
\* Address a lies in the closed range [redzone, top] of the zone.
Within(zone, a) == zone.redzone <= a /\ a <= zone.top
\* The boundary default_handler computes for the last delivery's address.
NewBoundary == round_up(last.addr + WordSize, unit)
\* The last delivery was a SIGSEGV handed to try_munprotect.
Routed == last.routed
\* ... and went to the handler of zone i.
RoutedTo(i) == last.routed /\ last.called = <<i>>
Grew(i) == RoutedTo(i) /\ last.handled /\ zones[i].redzone # prev[i].redzone

\* C1 (as stated): every zone satisfies min <= redzone <= top <= hardmax in
\* every reachable state.
C1_Ordering == \A i \in ZoneIdx : Ordered(zones[i])

\* C1 (amended): in every reachable state every zone satisfies
\* min <= redzone <= hardmax and min <= top <= hardmax; redzone <= top is
\* not kept, a successful growth may leave redzone above top.
C1_OrderingUpToHardmax ==
    \A i \in ZoneIdx :
        /\ zones[i].min <= zones[i].redzone
        /\ zones[i].redzone <= zones[i].hardmax
        /\ zones[i].min <= zones[i].top
        /\ zones[i].top <= zones[i].hardmax

\* Witness of C1: a growth after a fault at top moved redzone above top.
C1_Witness ==
    \E i \in ZoneIdx :
        /\ Grew(i)
        /\ last.addr = prev[i].top
        /\ zones[i].redzone > zones[i].top

\* C2: no step of a sequential run of faults lowers any zone's redzone.
C2_RedzoneMonotone ==
    [][\A i \in ZoneIdx : zones'[i].redzone >= zones[i].redzone]_vars

\* Witness of C2: a fault has been handled and raised a redzone.
C2_Witness == \E i \in ZoneIdx : Grew(i) /\ zones[i].redzone > prev[i].redzone

\* C3: a fault in [redzone, top] of a default_handler zone whose rounded
\* boundary is <= hardmax, with mprotect succeeding, is handled: redzone
\* becomes exactly the rounded boundary and top is unchanged.
C3_Growth ==
    \A i \in ZoneIdx :
        ( /\ FullBuild(build)
          /\ Routed
          /\ prev[i].handler = "default_handler"
          /\ Within(prev[i], last.addr)
          /\ NewBoundary <= prev[i].hardmax
          /\ last.mprotect_ok )
        => /\ last.handled
           /\ proc = "running"
           /\ zones[i].redzone = NewBoundary
           /\ zones[i].top = prev[i].top

\* Witness of C3: such a fault on an unaligned redzone has been handled.
C3_Witness ==
    \E i \in ZoneIdx :
        /\ Grew(i)
        /\ prev[i].redzone % unit # 0
        /\ last.addr > prev[i].redzone
        /\ zones[i].redzone = NewBoundary

\* C4: default_handler reports overflow exactly when the rounded boundary
\* is strictly above hardmax: a boundary equal to hardmax is a growth to
\* hardmax; above it the process exits inside the handler with a diagnostic
\* naming the zone's name and id, and redzone is unchanged.
C4_OverflowIffAboveHardmax ==
    \A i \in ZoneIdx :
        ( /\ FullBuild(build)
          /\ RoutedTo(i)
          /\ prev[i].handler = "default_handler" )
        => /\ (diag.kind = "overflowed") <=> (NewBoundary > prev[i].hardmax)
           /\ (NewBoundary > prev[i].hardmax) =>
                 /\ proc = "exited"
                 /\ ~last.returned
                 /\ ~last.handled
                 /\ diag = Naming("overflowed", prev[i])
                 /\ zones = prev
           /\ (NewBoundary = prev[i].hardmax /\ last.mprotect_ok) =>
                 /\ last.handled
                 /\ proc = "running"
                 /\ zones[i].redzone = prev[i].hardmax

\* Witness of C4: a growth that filled a zone exactly to hardmax.
C4_Witness ==
    \E i \in ZoneIdx : Grew(i) /\ NewBoundary = prev[i].hardmax

\* Second witness of C4: an overflow was reported.
C4_WitnessOverflow ==
    \E i \in ZoneIdx :
        RoutedTo(i) /\ diag.kind = "overflowed" /\ NewBoundary > prev[i].hardmax

\* C5: a SIGSEGV in [redzone, top] of a null_handler zone is unhandled,
\* changes no redzone, and ends the process with the generic
\* segmentation-violation diagnostic.
C5_NullHandlerRefuses ==
    \A i \in ZoneIdx :
        ( /\ Routed
          /\ prev[i].handler = "null_handler"
          /\ Within(prev[i], last.addr) )
        => /\ ~last.handled
           /\ zones = prev
           /\ proc = "exited"
           /\ diag = Generic("segmentation_violation")

\* Witness of C5: a full build called null_handler for a fault whose
\* rounded boundary was within hardmax.
C5_Witness ==
    \E i \in ZoneIdx :
        /\ FullBuild(build)
        /\ RoutedTo(i)
        /\ prev[i].handler = "null_handler"
        /\ NewBoundary <= prev[i].hardmax
        /\ proc = "exited"

\* C6: a fault address outside [redzone, top] of every zone calls no zone
\* handler, is unhandled, and the process terminates.
C6_ForeignFault ==
    ( /\ Routed
      /\ \A i \in ZoneIdx : ~Within(prev[i], last.addr) )
    => /\ last.called = << >>
       /\ ~last.handled
       /\ zones = prev
       /\ proc = "exited"
       /\ diag = Generic("segmentation_violation")

\* Witness of C6: a foreign fault inside a zone's accessible prefix.
C6_Witness ==
    /\ FullBuild(build)
    /\ Routed
    /\ last.called = << >>
    /\ \E i \in ZoneIdx : prev[i].min <= last.addr /\ last.addr < prev[i].redzone
    /\ proc = "exited"

\* Second witness of C6: a foreign fault in (top, hardmax] of a zone.
C6_WitnessAboveTop ==
    /\ FullBuild(build)
    /\ Routed
    /\ last.called = << >>
    /\ \E i \in ZoneIdx : prev[i].top < last.addr /\ last.addr <= prev[i].hardmax

\* C7: the router calls at most one handler, that of the first zone in
\* registry order whose [redzone, top] holds the address, and returns its
\* result; no other zone is changed, also when two zones share the address.
C7_FirstMatchOnly ==
    (FullBuild(build) /\ Routed) =>
        /\ Len(last.called) <= 1
        /\ (\E i \in ZoneIdx : Within(prev[i], last.addr)) => Len(last.called) = 1
        /\ \A i \in ZoneIdx :
              RoutedTo(i) =>
                 /\ Within(prev[i], last.addr)
                 /\ \A j \in 1 .. (i - 1) : ~Within(prev[j], last.addr)
                 /\ \A j \in ZoneIdx : j # i => zones[j] = prev[j]
                 /\ LET h == CallHandler(last.addr, prev, i, last.mprotect_ok) IN
                       /\ last.returned = h.returned
                       /\ last.handled = (h.returned /\ h.ret)

\* Witness of C7: a fault on an address two zones share went to the
\* first-registered of them, which has the higher addresses.
C7_Witness ==
    \E i, j \in ZoneIdx :
        /\ i < j
        /\ RoutedTo(i)
        /\ prev[j].top = last.addr
        /\ prev[i].redzone = last.addr

\* Second witness of C7: the first-registered zone has the lower addresses.
C7_WitnessLower ==
    \E i, j \in ZoneIdx :
        /\ i < j
        /\ RoutedTo(i)
        /\ prev[i].top = last.addr
        /\ prev[j].redzone = last.addr

\* C8: whenever the process has terminated through this subsystem, its exit
\* status is 1.
C8_ExitStatusOne ==
    /\ proc = "exited" => exit_status = 1
    /\ proc # "exited" => exit_status = NoExit

\* Witness of C8: the process exited on a failed protection change.
C8_Witness == proc = "exited" /\ diag.kind = "cannot_unprotect"

\* C9: when the rounded boundary is within hardmax and mprotect fails,
\* redzone is not updated, the fault is not handled, the process exits
\* inside the handler with a diagnostic other than the overflow one, and
\* nothing runs afterwards.
C9_UnprotectFailureIsFatal ==
    \A i \in ZoneIdx :
        ( /\ FullBuild(build)
          /\ RoutedTo(i)
          /\ prev[i].handler = "default_handler"
          /\ NewBoundary <= prev[i].hardmax
          /\ ~last.mprotect_ok )
        => /\ zones = prev
           /\ ~last.handled
           /\ ~last.returned
           /\ proc = "exited"
           /\ diag = Naming("cannot_unprotect", prev[i])
           /\ diag.kind # "overflowed"
           /\ ~ENABLED Next

\* Witness of C9: mprotect failed for a boundary within hardmax.
C9_Witness ==
    \E i \in ZoneIdx :
        /\ RoutedTo(i)
        /\ prev[i].handler = "default_handler"
        /\ NewBoundary <= prev[i].hardmax
        /\ ~last.mprotect_ok
        /\ proc = "exited"

\* The zone thread t's fault matches in the registry the run started from,
\* and what handling that fault alone, with nothing else running, gives.
Matched(t) == FindZone(prev, thr[t].addr, 1)
Alone(t, mprotect_ok) == try_munprotect_full(prev, thr[t].addr, mprotect_ok)
AloneHandled(t, mprotect_ok) ==
    Alone(t, mprotect_ok).returned /\ Alone(t, mprotect_ok).ret
DistinctZones(t, u) ==
    /\ t # u
    /\ thr[t].sig = "SIGSEGV" /\ thr[u].sig = "SIGSEGV"
    /\ Matched(t) # 0 /\ Matched(u) # 0
    /\ Matched(t) # Matched(u)

\* C10: when the faults of two threads match two distinct zones, whatever
\* the interleaving, each thread's handler finds the zone it finds alone,
\* returns what it returns alone, and leaves in its zone the redzone it
\* leaves alone; a zone is written by its own thread only.
C10_DistinctZonesIndependent ==
    \A t, u \in Threads :
        DistinctZones(t, u) =>
            /\ thr[t].zone \in {0, Matched(t)}
            /\ thr[t].pc \in {"handler", "size", "mprotect", "store",
                             "resumed"}
                  => thr[t].zone = Matched(t)
            /\ thr[t].pc = "resumed" =>
                  /\ thr[t].handled
                  /\ AloneHandled(t, TRUE)
                  /\ zones[Matched(t)].redzone =
                        Alone(t, TRUE).zones[Matched(t)].redzone
            /\ thr[t].pc = "exited" =>
                  /\ ~thr[t].handled
                  /\ ~AloneHandled(t, thr[t].mprotect_ok)
                  /\ diag \in {Alone(t, FALSE).diag,
                               Generic("segmentation_violation")}
            /\ thr[t].pc # "resumed" =>
                  zones[Matched(t)].redzone = prev[Matched(t)].redzone
            /\ \A i \in ZoneIdx :
                  (i # Matched(t) /\ i # Matched(u)) => zones[i] = prev[i]

\* Witness of C10: both threads have grown their own zones.
C10_Witness ==
    /\ DistinctZones("t1", "t2")
    /\ thr["t1"].pc = "resumed"
    /\ thr["t2"].pc = "resumed"
    /\ zones[Matched("t1")].redzone > prev[Matched("t1")].redzone
    /\ zones[Matched("t2")].redzone > prev[Matched("t2")].redzone

\* Thread t takes its store step: zone->redzone = new_zone.
Stores(t) == thr[t].pc = "store" /\ thr'[t].pc = "resumed"

\* C11: two threads faulting on the same default_handler zone race on its
\* redzone.  The store of a handler is unconditional: it installs the
\* boundary the thread computed even when another thread has meanwhile
\* installed a higher one, and then redzone ends below a boundary already
\* installed and below the end of the region already made read-write.
C11_LaterStoreWins ==
    [][\A t \in Threads :
          Stores(t) =>
             LET i == thr[t].zone IN
             /\ zones'[i].redzone = thr[t].new_zone
             /\ thr[t].new_zone < zones[i].redzone =>
                   /\ \E u \in Threads \ {t} :
                         /\ thr[u].pc = "resumed"
                         /\ thr[u].zone = i
                         /\ thr[u].new_zone = zones[i].redzone
                   /\ \A a \in thr[t].new_zone .. (zones[i].redzone - 1) :
                         a \in rw']_vars

\* Witness of C11: both threads have returned from a fault on the same
\* zone, the redzone is the smaller of the two boundaries they computed,
\* and the region below the larger one has been made read-write.
C11_Witness ==
    \E t, u \in Threads :
        /\ t # u
        /\ thr[t].pc = "resumed" /\ thr[u].pc = "resumed"
        /\ thr[t].zone = thr[u].zone
        /\ zones[thr[t].zone].redzone = thr[t].new_zone
        /\ thr[t].new_zone < thr[u].new_zone
        /\ \A a \in zones0[thr[t].zone].redzone .. (thr[u].new_zone - 1) :
              a \in rw

\* The handler of thread t is between its entry and its return or exit.
InHandler(t) ==
    thr[t].pc \in {"route", "handler", "size", "mprotect", "store"}
\* The steps the handler of thread t can take.
HandlerStep(t) ==
    MT_Route(t) \/ MT_Handler(t) \/ MT_Size(t) \/ MT_Mprotect(t) \/ MT_Store(t)
\* An upper bound on the steps the handler of thread t has left: the
\* zones the traversal has not looked at yet, then the zone's handler:
\* its test against hardmax, size, mprotect, store.
StepsLeft(t) ==
    CASE thr[t].pc = "route" -> 5 + (Len(zones) + 1 - thr[t].cur)
      [] thr[t].pc = "handler" -> 4
      [] thr[t].pc = "size" -> 3
      [] thr[t].pc = "mprotect" -> 2
      [] thr[t].pc = "store" -> 1
      [] OTHER -> 0
\* Where a delivery to thread t stands: still in the handler and able to
\* go on; returned, which happens only after mprotect succeeded and the
\* boundary was stored; or the process has exited and nothing runs.
Outcome(t) ==
    /\ (InHandler(t) /\ proc = "running") => ENABLED HandlerStep(t)
    /\ thr[t].pc = "resumed" =>
          /\ thr[t].sig = "SIGSEGV"
          /\ thr[t].handled /\ thr[t].mprotect_ok
          /\ thr[t].zone \in ZoneIdx
          /\ zones[thr[t].zone].handler = "default_handler"
          /\ thr[t].new_zone - 1 \in rw
    /\ thr[t].pc = "exited" => (proc = "exited" /\ ~thr[t].handled)
    /\ thr[t].sig = "SIGBUS" => thr[t].pc = "exited"
    /\ proc = "exited" => ~ENABLED NextMT

\* C12: every delivered SIGSEGV or SIGBUS is processed to completion.
\* Each step of a handler lowers the number of steps it has left, so the
\* traversal ends and nothing is retried; a handler still running can
\* always take its next step; and it ends in exactly one of two ways: it
\* returns to the faulting instruction, only after a successful growth,
\* or the process has terminated.  A SIGBUS always terminates.
C12_ProcessedToCompletion ==
    /\ [](\A t \in Threads : Outcome(t))
    /\ [][\A t \in Threads :
             (InHandler(t) /\ thr'[t] # thr[t]) =>
                 /\ StepsLeft(t)' < StepsLeft(t)
                 /\ StepsLeft(t)' >= 0]_vars

\* Witness of C12: one delivery ended in a return after a growth, the
\* other, which walked the registry to its end, in the process's exit.
C12_Witness ==
    \E t, u \in Threads :
        /\ thr[t].pc = "resumed" /\ thr[t].handled
        /\ zones[thr[t].zone].redzone = thr[t].new_zone
        /\ thr[u].pc = "exited" /\ thr[u].sig = "SIGSEGV"
        /\ thr[u].cur > Len(zones)
        /\ proc = "exited"

\* A signal has been delivered to a handler.
Delivered == last.entry # "none"

\* C13 (as stated): every fault that is not recovered terminates the
\* process through fatal_abort; a FALSE from the router goes to it too, and
\* no other function of the file ends the process.
C13_SingleAbort ==
    (Delivered /\ proc = "exited") => exiter = "fatal_abort"

\* C14: a step changes nothing of the registry but the redzone of the zone
\* the fault was routed to, and that only when its handler grew it: the
\* zones and their order, and every zone's name, id, min, top, hardmax
\* and handler stay as they were, and so does every other zone's redzone.
C14_Frame ==
    [][/\ Len(zones') = Len(zones)
       /\ \A i \in ZoneIdx :
             /\ zones'[i] = [zones[i] EXCEPT !.redzone = zones'[i].redzone]
             /\ zones'[i].redzone # zones[i].redzone =>
                   /\ last'.sig = "SIGSEGV"
                   /\ last'.called = <<i>>
                   /\ last'.handled /\ last'.resumed
                   /\ zones[i].handler = "default_handler"
                   /\ Within(zones[i], last'.addr)]_vars

\* Witness of C14: of two zones one has grown, and only its redzone
\* differs from what the registry held before the fault.
C14_Witness ==
    \E i, j \in ZoneIdx :
        /\ i # j
        /\ Grew(i)
        /\ zones[i] = [prev[i] EXCEPT !.redzone = NewBoundary]
        /\ zones[i] # prev[i]
        /\ zones[j] = prev[j]

\* The calls that are safe in a signal handler: write(2) of a buffer and
\* _exit.
RawCalls == {"write", "_exit"}

\* C15 (as stated): on the fault path every diagnostic is a raw write and
\* the exit is the signal-safe one; here for the deliveries the router
\* handed to a zone's handler and that handler did not return from: no
\* fprintf, perror, fflush or exit was called.
C15_RawWritesOnly ==
    (Delivered /\ last.called # << >> /\ ~last.returned) => out \subseteq RawCalls

\* C16: in a build with the minimal strategy, or without mprotect, or
\* without fault-address delivery, no fault grows a zone: the router is not
\* called or is the stub that returns FALSE without calling any zone's
\* handler, every delivered signal terminates the process, and no redzone
\* and no protection ever changes.
C16_NoGrowthWithoutSupport ==
    ~FullBuild(build) =>
        /\ zones = zones0
        /\ rw = {}
        /\ Delivered =>
              /\ proc = "exited"
              /\ exit_status = HandlerExitStatus
              /\ ~last.handled /\ ~last.resumed
              /\ last.called = << >>
              /\ build.strategy = "simple" => ~last.routed
              /\ last.routed => last.returned

\* Witness of C16: a build that delivers the fault address but has no
\* mprotect took a SIGSEGV inside the [redzone, top] of a default_handler
\* zone that had room to grow, and exited.
C16_Witness ==
    /\ ~build.have_mprotect
    /\ HaveSiginfo(build)
    /\ last.sig = "SIGSEGV" /\ last.routed
    /\ \E i \in ZoneIdx :
          /\ Within(zones[i], last.addr)
          /\ zones[i].handler = "default_handler"
          /\ NewBoundary <= zones[i].hardmax
          /\ zones[i] = zones0[i]
    /\ proc = "exited"

\* The entry lines of a dump: those between the header and the footer.
EntryLines == SubSeq(dump.lines, 2, Len(dump.lines) - 1)
LineLabel(line) == line[1]
LineCount(line) == IF Len(line) = 1 THEN 1 ELSE line[3]
\* The history a sequence of entry lines stands for.
RECURSIVE Expand(_)
Expand(lines) ==
    IF lines = << >> THEN << >>
    ELSE [k \in 1 .. LineCount(Head(lines)) |-> LineLabel(Head(lines))]
            \o Expand(Tail(lines))
RECURSIVE SumCounts(_)
SumCounts(lines) ==
    IF lines = << >> THEN 0
    ELSE LineCount(Head(lines)) + SumCounts(Tail(lines))

\* C17: print_dump_stack of the debug build writes, between its header
\* and footer, one line per maximal run of equal consecutive labels, in
\* history order: the label alone for a run of one, "label * count" for a
\* longer run; the counts sum to the length of the history, neighbouring
\* lines carry different labels, and an empty history gives no entry
\* line.
C17_DumpFoldsRuns ==
    dump.printed =>
        /\ Len(dump.lines) >= 2
        /\ Head(dump.lines) = DumpHeader
        /\ dump.lines[Len(dump.lines)] = DumpFooter
        /\ \A k \in 1 .. Len(EntryLines) :
              /\ Len(EntryLines[k]) \in {1, 3}
              /\ LineLabel(EntryLines[k]) \in Labels
              /\ Len(EntryLines[k]) = 3 =>
                    (EntryLines[k][2] = "*" /\ EntryLines[k][3] > 1)
        /\ Expand(EntryLines) = dump.hist
        /\ SumCounts(EntryLines) = Len(dump.hist)
        /\ \A k \in 1 .. Len(EntryLines) - 1 :
              LineLabel(EntryLines[k]) # LineLabel(EntryLines[k + 1])
        /\ dump.hist = << >> => EntryLines = << >>

\* Witness of C17: a history with a run of one and a longer run has been
\* printed as a bare label and a counted label.
C17_Witness ==
    /\ dump.printed
    /\ Len(dump.hist) >= 4
    /\ \E k \in 1 .. Len(EntryLines) : Len(EntryLines[k]) = 1
    /\ \E k \in 1 .. Len(EntryLines) :
          Len(EntryLines[k]) = 3 /\ EntryLines[k][3] >= 3

\* C18: a SIGBUS is never handed to the router, whatever the strategy and
\* even when its address lies in the [redzone, top] of a default_handler
\* zone with room to grow: no zone's handler is called, the registry is
\* left as it was, and the process exits.
C18_BusNeverRouted ==
    last.sig = "SIGBUS" =>
        /\ ~last.routed
        /\ last.called = << >>
        /\ ~last.handled /\ ~last.resumed
        /\ zones = prev
        /\ proc = "exited"
        /\ exit_status = HandlerExitStatus
        /\ diag.kind \in {"bus_error", "strange_bus_error",
                          "strange_segmentation_violation"}

\* Witness of C18: in a build with the real router, a bus error whose
\* address a SIGSEGV would have grown a zone for has ended the process.
C18_Witness ==
    /\ last.sig = "SIGBUS"
    /\ FullBuild(build)
    /\ diag.kind = "bus_error"
    /\ \E i \in ZoneIdx :
          /\ Within(zones[i], last.addr)
          /\ zones[i].handler = "default_handler"
          /\ NewBoundary <= zones[i].hardmax
    /\ proc = "exited"

\* The boundaries a zone can still grow to: the multiples of the unit in
\* (redzone, hardmax].
Remaining(zone) == (zone.hardmax \div unit) - (zone.redzone \div unit)
\* The last delivery was a fault default_handler returned TRUE for on
\* zone i.
GrewFor(i) == last.handled /\ last.called = <<i>>

\* C19: every successful growth makes progress.  After default_handler
\* has returned TRUE for fault address a, a + sizeof(Word) <= redzone, so
\* the same access no longer falls in the zone's guard band, and redzone
\* is strictly higher than before and a multiple of the unit.  Each growth
\* therefore uses up at least one of the boundaries the zone can still
\* grow to, of which there are at most
\* (hardmax - initial redzone) / unit + 1 at start-up, and once none is
\* left every guard-band fault on the zone overflows.
C19_GrowthProgress ==
    \A i \in ZoneIdx :
        /\ Remaining(zones[i]) >= 0
        /\ Remaining(zones[i]) <= Remaining(zones0[i])
        /\ Remaining(zones0[i]) <=
              ((zones0[i].hardmax - zones0[i].redzone) \div unit) + 1
        /\ GrewFor(i) =>
              /\ last.addr + WordSize <= zones[i].redzone
              /\ ~Within(zones[i], last.addr)
              /\ zones[i].redzone > prev[i].redzone
              /\ zones[i].redzone % unit = 0
              /\ Remaining(zones[i]) <= Remaining(prev[i]) - 1
        /\ (RoutedTo(i) /\ prev[i].handler = "default_handler"
               /\ Remaining(prev[i]) = 0) =>
              (diag.kind = "overflowed" /\ proc = "exited")

\* Witness of C19: a zone has grown for the second time and has no
\* boundary left to grow to.
C19_Witness ==
    \E i \in ZoneIdx :
        /\ GrewFor(i)
        /\ prev[i].redzone > zones0[i].redzone
        /\ zones[i].redzone > prev[i].redzone
        /\ Remaining(zones[i]) = 0

\* Witness of C19: a guard-band fault on a zone with no boundary left
\* has overflowed.
C19_WitnessExhausted ==
    \E i \in ZoneIdx :
        /\ RoutedTo(i)
        /\ prev[i].handler = "default_handler"
        /\ prev[i].redzone > zones0[i].redzone
        /\ Remaining(prev[i]) = 0
        /\ diag.kind = "overflowed"

\* The addresses between a zone's start-up redzone and its redzone now.
GrownRange(i) == zones0[i].redzone .. (zones[i].redzone - 1)

\* C20: the protection map stays consistent with redzone.  After any
\* sequence of faults handled one after the other, the addresses that have
\* been made read-write are exactly those from each zone's start-up
\* redzone up to, not including, its redzone now; and each growth
\* unprotects exactly [old redzone, new redzone), any other step nothing.
C20_ProtectionMatchesRedzone ==
    /\ [](rw = UNION {GrownRange(i) : i \in ZoneIdx})
    /\ [][\A i \in ZoneIdx :
             /\ zones'[i].redzone # zones[i].redzone =>
                   rw' = rw \cup (zones[i].redzone .. (zones'[i].redzone - 1))
             /\ zones' = zones => rw' = rw]_vars

\* Witness of C20: a zone whose redzone started off a unit boundary has
\* grown twice; everything from the start-up redzone up to the redzone is
\* read-write and the redzone itself is not.
C20_Witness ==
    \E i \in ZoneIdx :
        /\ Grew(i)
        /\ zones0[i].redzone % unit # 0
        /\ zones0[i].redzone < prev[i].redzone
        /\ prev[i].redzone < zones[i].redzone
        /\ \A a \in GrownRange(i) : a \in rw
        /\ zones[i].redzone \notin rw

====
